---- MODULE Spec2Model ----
(***************************************************************************)
(* Model of package promise (avila-r/ego): the Promise[T] state machine,   *)
(* its execution task (Of), the manual completers (Complete,               *)
(* CompleteExceptionally, Cancel), the readers (Get, Join), the timeout    *)
(* supervisors (Timeout, CompleteOnTimeout) and the combinators (Then,     *)
(* ThenAccept, ThenRun, Map, Compose, Exceptionally, Handle) in their      *)
(* Sync and Async forms.                                                   *)
(*                                                                         *)
(* Every method body that runs between p.mu.Lock()/RLock() and the         *)
(* matching unlock is one action: the mutex makes it atomic with respect   *)
(* to every other locked body.  The execution task of Of is three steps,   *)
(* as in the code: supplier() returns, the locked write, and the deferred  *)
(* p.close() that runs after the deferred unlock.                          *)
(***************************************************************************)
EXTENDS Integers, Sequences, FiniteSets, TLC

\* ---------------------------------------------------------------- bounds
MaxValue == 2          \* suppliers and callers pass values in 0..MaxValue
MaxThen  == 2          \* number of synchronous Then calls on the source
NumWaiters == 2        \* number of tasks that call Get or Join and wait

\* ------------------------------------------------------------- constants
Zero == 0              \* zero value of T (T = int)

Values == Zero..MaxValue

Nil        == "nil"                 \* the nil error
ErrTimeout == "promise timeout"     \* errors.New("promise timeout")
UserErrors == {"e1", "e2"}          \* errors made by suppliers and callers
Errors     == {Nil, ErrTimeout} \cup UserErrors

StateRunning   == "Running"
StateSuccess   == "Success"
StateFailed    == "Failed"
StateCancelled == "Cancelled"
State    == {StateRunning, StateSuccess, StateFailed, StateCancelled}
Terminal == State \ {StateRunning}

Sync  == "Sync"
Async == "Async"
Concurrency == {Sync, Async}

\* "p" is the promise under test, "q" the promise a combinator derives from
\* it, "n" the promise the composer passed to Compose returns.
Promises == {"p", "q", "n"}

None == "none"

Waiters == 1..NumWaiters
\* A waiter that has not called yet; blocked says whether the gate was open
\* when it reached <-p.done.
Idle == [pc |-> "idle", blocked |-> FALSE]

VARIABLES
    promises,     \* the promises constructed so far
    state,        \* Promise.state
    value,        \* Promise.value
    err,          \* Promise.err
    done,         \* Promise.done is closed
    once,         \* Promise.once has fired
    closes,       \* how many times close(p.done) was executed
    ctxDone,      \* Promise.ctx is cancelled (p.cancel() was called)
    exec,         \* the goroutine spawned by Of, per promise
    sup,          \* the goroutine spawned by Timeout / CompleteOnTimeout on "p"
    thenCalls,    \* synchronous Then calls made so far
    ret,          \* what the most recent API call on "p" returned
    firstGet,     \* what the first Get on "p" returned, <<>> before it
    wins,         \* the calls that took effect: Complete/CompleteExceptionally
                  \* calls that returned true, Cancel calls that found Running
    invoked,      \* the arguments of every call of the user function that
                  \* was passed to a combinator, in order
    waitPc,       \* the tasks that call Get or Join on "p": where each is
    mu,           \* Promise.mu of "p": who holds it and who waits to write
    cb            \* the task that runs a combinator on "p" and calls the
                  \* user function, and the call that function makes on "p"

fields == <<state, value, err, done, once, closes, ctxDone>>
ghost  == <<ret, firstGet, wins>>
aux    == <<invoked, waitPc, mu, cb>>
vars   == <<promises, state, value, err, done, once, closes, ctxDone, exec, sup,
           thenCalls, ret, firstGet, wins, invoked, waitPc, mu, cb>>

\* sync.RWMutex, unlocked: no writer, no readers, no Lock call waiting.
Unlocked == [writer |-> None, readers |-> 0, pending |-> {}]
NoCallback == [pc |-> "idle", op |-> None, mode |-> None, hold |-> None,
               call |-> None]
NoExec == [pc |-> None, kind |-> None, v |-> Zero, e |-> Nil]
NoSup  == [pc |-> None, kind |-> None, fallback |-> Zero,
           firedAt |-> None, ok |-> FALSE]
NoRet  == [op |-> None, pre |-> None, ok |-> FALSE, val |-> Zero,
           err |-> Nil, ptr |-> None, mode |-> None]

\* Bookkeeping of a call `call` of operation op on pr: effective says whether
\* it took effect; at is where the execution task of pr is at that moment.
Record(pr, op, call, effective) ==
    wins' = IF effective
            THEN Append(wins, [op |-> op, val |-> call.val, err |-> call.err,
                               at |-> exec[pr].pc])
            ELSE wins

\* The transform passed to Then.
Pipeline(v) == v + 1

\* ------------------------------------------------------------ constructors
\* Fields every constructor sets the same way.
Fresh ==
    /\ promises = {"p"}
    /\ err = [pr \in Promises |-> Nil]
    /\ ctxDone = [pr \in Promises |-> FALSE]
    /\ sup = NoSup
    /\ thenCalls = 0
    /\ ret = NoRet
    /\ firstGet = <<>>
    /\ wins = <<>>
    /\ invoked = <<>>
    /\ waitPc = [w \in Waiters |-> Idle]
    /\ mu = Unlocked
    /\ cb = NoCallback

\* p := Empty[T]()
Empty ==
    /\ Fresh
    /\ state = [pr \in Promises |-> StateRunning]
    /\ value = [pr \in Promises |-> Zero]
    /\ done = [pr \in Promises |-> FALSE]
    /\ once = [pr \in Promises |-> FALSE]
    /\ closes = [pr \in Promises |-> 0]
    /\ exec = [pr \in Promises |-> NoExec]

\* p := Of(supplier): the goroutine is spawned and is inside supplier().
Of ==
    /\ Fresh
    /\ state = [pr \in Promises |-> StateRunning]
    /\ value = [pr \in Promises |-> Zero]
    /\ done = [pr \in Promises |-> FALSE]
    /\ once = [pr \in Promises |-> FALSE]
    /\ closes = [pr \in Promises |-> 0]
    /\ exec = [pr \in Promises |->
                 IF pr = "p" THEN [NoExec EXCEPT !.pc = "supplier", !.kind = "user"]
                 ELSE NoExec]

\* p := Completed(v)
Completed(v) ==
    /\ Fresh
    /\ state = [pr \in Promises |-> IF pr = "p" THEN StateSuccess ELSE StateRunning]
    /\ value = [pr \in Promises |-> IF pr = "p" THEN v ELSE Zero]
    /\ done = [pr \in Promises |-> pr = "p"]
    /\ once = [pr \in Promises |-> pr = "p"]
    /\ closes = [pr \in Promises |-> IF pr = "p" THEN 1 ELSE 0]
    /\ exec = [pr \in Promises |-> NoExec]

Init == Empty \/ Of \/ \E v \in Values : Completed(v)

\* ------------------------------------------------------------------ close
\* p.close() without the sync.Once: close(p.done) on every call.
close_NoOnce(pr) ==
    /\ once' = [once EXCEPT ![pr] = TRUE]
    /\ done' = [done EXCEPT ![pr] = TRUE]
    /\ closes' = [closes EXCEPT ![pr] = @ + 1]

\* p.close(): once.Do(func() { close(p.done) })
close(pr) ==
    IF once[pr]
    THEN UNCHANGED <<done, once, closes>>
    ELSE /\ once' = [once EXCEPT ![pr] = TRUE]
         /\ done' = [done EXCEPT ![pr] = TRUE]
         /\ closes' = [closes EXCEPT ![pr] = @ + 1]

\* The promise a closure made by a combinator captured as p: the receiver
\* of the call that made it.  "q" is derived from "p"; "n", when it is made
\* by a combinator, is derived from "q".
Source(pr) == IF pr = "n" THEN "q" ELSE "p"

\* --------------------------------------------------------- execution task
\* value, err := supplier()
SupplierReturn(pr) ==
    /\ pr \in promises
    /\ exec[pr].pc = "supplier"
    /\ \/ /\ exec[pr].kind = "user"
          /\ \E v \in Values, e \in {Nil} \cup UserErrors :
                exec' = [exec EXCEPT ![pr].pc = "write", ![pr].v = v, ![pr].e = e]
          /\ UNCHANGED invoked
       \/ /\ exec[pr].kind = "then"
          \* return pipeline(p.value), nil   (p.value read without the lock)
          /\ exec' = [exec EXCEPT ![pr].pc = "write",
                                  ![pr].v = Pipeline(value[Source(pr)]),
                                  ![pr].e = Nil]
          /\ invoked' = Append(invoked, [v |-> value[Source(pr)], e |-> Nil])
    /\ UNCHANGED <<promises, fields, sup, thenCalls, ghost, waitPc, mu, cb>>

\* The locked write of the execution task leaving p.err as it is.
ExecWriteBody_KeepErr(pr) ==
    /\ value' = [value EXCEPT ![pr] = exec[pr].v]
    /\ state' = [state EXCEPT ![pr] =
                    IF exec[pr].e # Nil THEN StateFailed ELSE StateSuccess]
    /\ UNCHANGED err

\* p.mu.Lock(); p.value = value; p.err = err; p.state = ...; p.mu.Unlock()
ExecWriteBody(pr) ==
    /\ value' = [value EXCEPT ![pr] = exec[pr].v]
    /\ err' = [err EXCEPT ![pr] = exec[pr].e]
    /\ state' = [state EXCEPT ![pr] =
                    IF exec[pr].e # Nil THEN StateFailed ELSE StateSuccess]

ExecWrite(pr) ==
    /\ pr \in promises
    /\ exec[pr].pc = "write"
    /\ ExecWriteBody(pr)
    /\ exec' = [exec EXCEPT ![pr].pc = "close"]
    /\ UNCHANGED <<promises, done, once, closes, ctxDone, sup, thenCalls, ghost>>
    /\ UNCHANGED aux

\* Variant: the execution task ends without closing the gate.
ExecClose_NoClose(pr) ==
    /\ pr \in promises
    /\ exec[pr].pc = "close"
    /\ exec' = [exec EXCEPT ![pr].pc = "done"]
    /\ UNCHANGED <<promises, fields, sup, thenCalls, ghost>>
    /\ UNCHANGED aux

\* defer p.close()  (registered first, so it runs after the unlock)
ExecClose(pr) ==
    /\ pr \in promises
    /\ exec[pr].pc = "close"
    /\ close(pr)
    /\ exec' = [exec EXCEPT ![pr].pc = "done"]
    /\ UNCHANGED <<promises, state, value, err, ctxDone, sup, thenCalls, ghost>>
    /\ UNCHANGED aux

\* ------------------------------------------------------ manual completers
\* Complete without the test of p.state: it overwrites a terminal promise.
CompleteBody_NoGuard(pr, v, r) ==
    /\ r = TRUE
    /\ value' = [value EXCEPT ![pr] = v]
    /\ state' = [state EXCEPT ![pr] = StateSuccess]
    /\ close(pr)
    /\ UNCHANGED <<err, ctxDone>>

\* Body of Complete between Lock and Unlock; r is the value returned.
CompleteBody(pr, v, r) ==
    IF state[pr] # StateRunning
    THEN /\ r = FALSE
         /\ UNCHANGED fields
    ELSE /\ r = TRUE
         /\ value' = [value EXCEPT ![pr] = v]
         /\ state' = [state EXCEPT ![pr] = StateSuccess]
         /\ close(pr)
         /\ UNCHANGED <<err, ctxDone>>

\* CompleteExceptionally without the test of p.state.
CompleteExceptionallyBody_NoGuard(pr, e, r) ==
    /\ r = TRUE
    /\ err' = [err EXCEPT ![pr] = e]
    /\ state' = [state EXCEPT ![pr] = StateFailed]
    /\ close(pr)
    /\ UNCHANGED <<value, ctxDone>>

\* CompleteExceptionally that refuses a nil error.
CompleteExceptionallyBody_RejectNil(pr, e, r) ==
    IF state[pr] # StateRunning \/ e = Nil
    THEN /\ r = FALSE
         /\ UNCHANGED fields
    ELSE /\ r = TRUE
         /\ err' = [err EXCEPT ![pr] = e]
         /\ state' = [state EXCEPT ![pr] = StateFailed]
         /\ close(pr)
         /\ UNCHANGED <<value, ctxDone>>

\* Body of CompleteExceptionally between Lock and Unlock.
CompleteExceptionallyBody(pr, e, r) ==
    IF state[pr] # StateRunning
    THEN /\ r = FALSE
         /\ UNCHANGED fields
    ELSE /\ r = TRUE
         /\ err' = [err EXCEPT ![pr] = e]
         /\ state' = [state EXCEPT ![pr] = StateFailed]
         /\ close(pr)
         /\ UNCHANGED <<value, ctxDone>>

\* Cancel without the test of p.state.
CancelBody_NoGuard(pr) ==
    /\ state' = [state EXCEPT ![pr] = StateCancelled]
    /\ ctxDone' = [ctxDone EXCEPT ![pr] = TRUE]
    /\ close(pr)
    /\ UNCHANGED <<value, err>>

\* Cancel that forgets to call p.cancel().
CancelBody_NoContext(pr) ==
    IF state[pr] = StateRunning
    THEN /\ state' = [state EXCEPT ![pr] = StateCancelled]
         /\ close(pr)
         /\ UNCHANGED <<value, err, ctxDone>>
    ELSE UNCHANGED fields

\* Cancel that forgets to close the gate.
CancelBody_NoClose(pr) ==
    IF state[pr] = StateRunning
    THEN /\ state' = [state EXCEPT ![pr] = StateCancelled]
         /\ ctxDone' = [ctxDone EXCEPT ![pr] = TRUE]
         /\ UNCHANGED <<value, err, done, once, closes>>
    ELSE UNCHANGED fields

\* Body of Cancel between Lock and Unlock.
CancelBody(pr) ==
    IF state[pr] = StateRunning
    THEN /\ state' = [state EXCEPT ![pr] = StateCancelled]
         /\ ctxDone' = [ctxDone EXCEPT ![pr] = TRUE]
         /\ close(pr)
         /\ UNCHANGED <<value, err>>
    ELSE UNCHANGED fields

\* ok := p.Complete(v), called by any task
Complete(pr, v) ==
    /\ pr \in promises
    /\ \E r \in BOOLEAN :
          /\ CompleteBody(pr, v, r)
          /\ ret' = [NoRet EXCEPT !.op = "Complete", !.pre = state[pr],
                                  !.ok = r, !.val = v]
          /\ Record(pr, "Complete", ret', r)
    /\ UNCHANGED <<promises, exec, sup, thenCalls, firstGet>>
    /\ UNCHANGED aux

\* ok := p.CompleteExceptionally(e), called by any task
CompleteExceptionally(pr, e) ==
    /\ pr \in promises
    /\ \E r \in BOOLEAN :
          /\ CompleteExceptionallyBody(pr, e, r)
          /\ ret' = [NoRet EXCEPT !.op = "CompleteExceptionally",
                                  !.pre = state[pr], !.ok = r, !.err = e]
          /\ Record(pr, "CompleteExceptionally", ret', r)
    /\ UNCHANGED <<promises, exec, sup, thenCalls, firstGet>>
    /\ UNCHANGED aux

\* p.Cancel(), called by any task
Cancel(pr) ==
    /\ pr \in promises
    /\ CancelBody(pr)
    /\ ret' = [NoRet EXCEPT !.op = "Cancel", !.pre = state[pr], !.ok = TRUE]
    /\ Record(pr, "Cancel", ret', state[pr] = StateRunning)
    /\ UNCHANGED <<promises, exec, sup, thenCalls, firstGet>>
    /\ UNCHANGED aux

\* ---------------------------------------------------------------- readers
\* Introspection: lock-protected reads of p.state.
IsDone(pr)      == state[pr] # StateRunning
IsSuccess(pr)   == state[pr] = StateSuccess
IsError(pr)     == state[pr] = StateFailed
IsCancelled(pr) == state[pr] = StateCancelled
IsCompletedExceptionally(pr) == IsError(pr)

\* What Get returns once <-p.done has passed: (p.value, p.err).
GetResult(pr) == <<value[pr], err[pr]>>

\* v, e := p.Get(): blocks until done is closed
Get(pr) ==
    /\ pr \in promises
    /\ done[pr]
    /\ ret' = [NoRet EXCEPT !.op = "Get", !.pre = state[pr], !.ok = TRUE,
                            !.val = GetResult(pr)[1], !.err = GetResult(pr)[2]]
    /\ firstGet' = IF firstGet = <<>> THEN GetResult(pr) ELSE firstGet
    /\ UNCHANGED <<promises, fields, exec, sup, thenCalls, wins>>
    /\ UNCHANGED aux

\* Join without the test of p.err: it returns p.value of a failed promise.
JoinResult_NoPanic(pr) ==
    [NoRet EXCEPT !.op = "Join", !.pre = state[pr], !.ok = TRUE,
                  !.val = value[pr]]

\* Join panics with p.err when it is not nil (ok = FALSE, err the payload),
\* and returns p.value otherwise.
JoinResult(pr) ==
    IF err[pr] # Nil
    THEN [NoRet EXCEPT !.op = "Join", !.pre = state[pr], !.ok = FALSE,
                       !.err = err[pr]]
    ELSE [NoRet EXCEPT !.op = "Join", !.pre = state[pr], !.ok = TRUE,
                       !.val = value[pr]]

\* v := p.Join(): blocks until done is closed
Join(pr) ==
    /\ pr \in promises
    /\ done[pr]
    /\ ret' = JoinResult(pr)
    /\ UNCHANGED <<promises, fields, exec, sup, thenCalls, firstGet, wins>>
    /\ UNCHANGED aux

\* ---------------------------------------------------------------- waiters
\* Task w calls p.Get() or p.Join() and reaches <-p.done, the first statement
\* of both; blocked records whether the gate was still open at that moment.
WaitStart(w) ==
    /\ waitPc[w].pc = "idle"
    /\ waitPc' = [waitPc EXCEPT ![w] = [pc |-> "wait", blocked |-> ~done["p"]]]
    /\ UNCHANGED <<promises, fields, exec, sup, thenCalls, ghost, invoked, mu, cb>>

\* The receive from the closed channel returns and the call goes on to read
\* the result.
WaitReturn(w) ==
    /\ waitPc[w].pc = "wait"
    /\ done["p"]
    /\ waitPc' = [waitPc EXCEPT ![w] = [pc |-> "returned",
                                        blocked |-> waitPc[w].blocked]]
    /\ UNCHANGED <<promises, fields, exec, sup, thenCalls, ghost, invoked, mu, cb>>

\* ------------------------------------------------------ timeout supervisors
\* p.Timeout(d) / p.Threshold(d): spawns the supervisor and returns p.
Timeout(pr) ==
    /\ pr \in promises
    /\ sup.pc = None
    /\ sup' = [NoSup EXCEPT !.pc = "select", !.kind = "Timeout"]
    /\ UNCHANGED <<promises, fields, exec, thenCalls, ghost>>
    /\ UNCHANGED aux

\* p.CompleteOnTimeout(v, d): spawns the supervisor and returns p.
CompleteOnTimeout(pr, v) ==
    /\ pr \in promises
    /\ sup.pc = None
    /\ sup' = [NoSup EXCEPT !.pc = "select", !.kind = "CompleteOnTimeout",
                            !.fallback = v]
    /\ UNCHANGED <<promises, fields, exec, thenCalls, ghost>>
    /\ UNCHANGED aux

\* select { case <-p.done: return }
SupervisorGate(pr) ==
    /\ sup.pc = "select"
    /\ done[pr]
    /\ sup' = [sup EXCEPT !.pc = "exit"]
    /\ UNCHANGED <<promises, fields, exec, thenCalls, ghost>>
    /\ UNCHANGED aux

\* select { case <-time.After(duration): ... }: the timer fires and the
\* select takes that case (also when done is closed too: select picks any
\* ready case).  firedAt records where the execution task is at that moment.
SupervisorTimer(pr) ==
    /\ sup.pc = "select"
    /\ sup' = [sup EXCEPT !.pc = "timer", !.firedAt = exec[pr].pc]
    /\ UNCHANGED <<promises, fields, exec, thenCalls, ghost>>
    /\ UNCHANGED aux

\* The supervisor leaving after the timer fired without completing the
\* promise.
SupervisorFire_NoComplete(pr) ==
    /\ sup.pc = "timer"
    /\ sup' = [sup EXCEPT !.pc = "exit"]
    /\ UNCHANGED <<promises, fields, exec, thenCalls, ghost>>
    /\ UNCHANGED aux

\* p.CompleteExceptionally(errors.New("promise timeout")) / p.Complete(value)
SupervisorFire(pr) ==
    /\ sup.pc = "timer"
    /\ \E r \in BOOLEAN :
          /\ IF sup.kind = "Timeout"
             THEN CompleteExceptionallyBody(pr, ErrTimeout, r)
             ELSE CompleteBody(pr, sup.fallback, r)
          /\ sup' = [sup EXCEPT !.pc = "exit", !.ok = r]
    /\ UNCHANGED <<promises, exec, thenCalls, ghost>>
    /\ UNCHANGED aux

\* --------------------------------------------------------------- Then
\* p.ThenWithConcurrency(concurrency, pipeline); Then is the Async form.
ThenWithConcurrency(concurrency) ==
    /\ done["p"]
    /\ IF err["p"] # Nil
       THEN \* return p
            /\ ret' = [NoRet EXCEPT !.op = "Then", !.pre = state["p"],
                                    !.ok = TRUE, !.ptr = "p",
                                    !.mode = concurrency]
            /\ UNCHANGED <<promises, fields, exec, thenCalls, invoked>>
       ELSE IF concurrency = Async
       THEN \* return Of(func() (T, error) { return pipeline(p.value), nil })
            /\ "q" \notin promises
            /\ promises' = promises \cup {"q"}
            /\ exec' = [exec EXCEPT !["q"] =
                           [NoExec EXCEPT !.pc = "supplier", !.kind = "then"]]
            /\ ret' = [NoRet EXCEPT !.op = "Then", !.pre = state["p"],
                                    !.ok = TRUE, !.ptr = "q",
                                    !.mode = concurrency]
            /\ UNCHANGED <<fields, thenCalls, invoked>>
       ELSE \* p.value = pipeline(p.value); return p
            /\ thenCalls < MaxThen
            /\ value' = [value EXCEPT !["p"] = Pipeline(value["p"])]
            /\ thenCalls' = thenCalls + 1
            /\ invoked' = Append(invoked, [v |-> value["p"], e |-> Nil])
            /\ ret' = [NoRet EXCEPT !.op = "Then", !.pre = state["p"],
                                    !.ok = TRUE, !.ptr = "p",
                                    !.mode = concurrency]
            /\ UNCHANGED <<promises, state, err, done, once, closes, ctxDone, exec>>
    /\ UNCHANGED <<sup, firstGet, wins, waitPc, mu, cb>>

\* ------------------------------------------------------------ combinators
\* The functions a caller passes to the combinators.
Mapper(v) == 2 * v + 1
Recovery(e) == IF e = "e1" THEN MaxValue + 1 ELSE MaxValue + 2
Handler(v, e) == IF e = Nil THEN v + 1 ELSE v + MaxValue + 2

\* Void{}, the only value of a Promise[Void].
Void == Zero

Combinators == {"ThenAccept", "ThenRun", "Map", "Compose", "Exceptionally",
                "Handle"}

\* <-p.done without the wait.
Await_NoWait(pr) == TRUE

\* <-p.done: the receive returns once the channel is closed.
Await(pr) == done[pr]

\* return Of(closure): the derived promise pr and its goroutine, which is
\* about to call the closure.
SpawnOf(pr, kind) ==
    /\ promises' = promises \cup {pr}
    /\ exec' = [exec EXCEPT ![pr] = [NoExec EXCEPT !.pc = "supplier",
                                                   !.kind = kind]]
    /\ UNCHANGED <<state, value, err, done, once, closes>>

\* return Completed(v)
ReturnCompleted(pr, v) ==
    /\ promises' = promises \cup {pr}
    /\ state' = [state EXCEPT ![pr] = StateSuccess]
    /\ value' = [value EXCEPT ![pr] = v]
    /\ done' = [done EXCEPT ![pr] = TRUE]
    /\ once' = [once EXCEPT ![pr] = TRUE]
    /\ closes' = [closes EXCEPT ![pr] = @ + 1]
    /\ UNCHANGED <<err, exec>>

\* What a call returned: the combinator, its mode, the promise returned and
\* the state of the source at the call.
Returned(op, concurrency, pr) ==
    ret' = [NoRet EXCEPT !.op = op, !.pre = state["p"], !.ok = TRUE,
                         !.ptr = pr, !.mode = concurrency]

\* The closures of the Async forms and the bodies of the Sync forms, from the
\* (value, err) read from the source under its lock: v and e are what the
\* closure returns (v what the Sync form passes to Completed), call the
\* arguments of the calls of the user function.
ThenAcceptAsync(v, e) ==
    IF e # Nil
    THEN [v |-> Void, e |-> e, call |-> <<>>]
    ELSE [v |-> Void, e |-> Nil, call |-> <<[v |-> v, e |-> Nil]>>]

ThenAcceptSync(v, e) ==
    IF e # Nil
    THEN [v |-> Void, call |-> <<>>]
    ELSE [v |-> Void, call |-> <<[v |-> v, e |-> Nil]>>]

ThenRunAsync(v, e) ==
    [v |-> Void, e |-> Nil, call |-> <<[v |-> Zero, e |-> Nil]>>]

\* The Sync form of ThenRun returning without running the action.
ThenRunSync_NoAction(v, e) ==
    [v |-> Void, call |-> <<>>]

ThenRunSync(v, e) ==
    [v |-> Void, call |-> <<[v |-> Zero, e |-> Nil]>>]

MapAsync(v, e) ==
    IF e # Nil
    THEN [v |-> Zero, e |-> e, call |-> <<>>]
    ELSE [v |-> Mapper(v), e |-> Nil, call |-> <<[v |-> v, e |-> Nil]>>]

MapSync(v, e) ==
    IF e # Nil
    THEN [v |-> Zero, call |-> <<>>]
    ELSE [v |-> Mapper(v), call |-> <<[v |-> v, e |-> Nil]>>]

\* The Async closure of Exceptionally returning the source's error instead
\* of recovering from it.
ExceptionallyAsync_PassError(v, e) ==
    [v |-> v, e |-> e, call |-> <<>>]

ExceptionallyAsync(v, e) ==
    IF e # Nil
    THEN [v |-> Recovery(e), e |-> Nil, call |-> <<[v |-> Zero, e |-> e]>>]
    ELSE [v |-> v, e |-> Nil, call |-> <<>>]

ExceptionallySync(v, e) ==
    IF e # Nil
    THEN [v |-> Recovery(e), call |-> <<[v |-> Zero, e |-> e]>>]
    ELSE [v |-> v, call |-> <<>>]

HandleAsync(v, e) ==
    [v |-> Handler(v, e), e |-> Nil, call |-> <<[v |-> v, e |-> e]>>]

HandleSync(v, e) ==
    [v |-> Handler(v, e), call |-> <<[v |-> v, e |-> e]>>]

\* The closure of the Async form of Compose when the source has failed.
ComposeAsyncFailed(v, e) ==
    [v |-> Zero, e |-> e, call |-> <<>>]

Closure(kind, v, e) ==
    CASE kind = "ThenAccept"    -> ThenAcceptAsync(v, e)
      [] kind = "ThenRun"       -> ThenRunAsync(v, e)
      [] kind = "Map"           -> MapAsync(v, e)
      [] kind = "Exceptionally" -> ExceptionallyAsync(v, e)
      [] kind = "Handle"        -> HandleAsync(v, e)
      [] kind = "Compose"       -> ComposeAsyncFailed(v, e)

SyncBody(op, v, e) ==
    CASE op = "ThenAccept"    -> ThenAcceptSync(v, e)
      [] op = "ThenRun"       -> ThenRunSync(v, e)
      [] op = "Map"           -> MapSync(v, e)
      [] op = "Exceptionally" -> ExceptionallySync(v, e)
      [] op = "Handle"        -> HandleSync(v, e)

\* A combinator other than Compose called on "p".  Async: return
\* Of(closure).  Sync: <-p.done, then the body under the read lock and
\* return Completed(...).
Combine(op, concurrency) ==
    /\ "q" \notin promises
    /\ IF concurrency = Async
       THEN /\ SpawnOf("q", op)
            /\ UNCHANGED invoked
       ELSE /\ Await("p")
            /\ ReturnCompleted("q", SyncBody(op, value["p"], err["p"]).v)
            /\ invoked' = invoked \o SyncBody(op, value["p"], err["p"]).call
    /\ Returned(op, concurrency, "q")
    /\ UNCHANGED <<ctxDone, sup, thenCalls, firstGet, wins, waitPc, mu, cb>>

\* p.ThenAcceptWithConcurrency(concurrency, consumer); ThenAccept is the
\* Async form.
ThenAcceptWithConcurrency(concurrency) == Combine("ThenAccept", concurrency)

\* p.ThenRunWithConcurrency(concurrency, action); ThenRun is the Async form.
ThenRunWithConcurrency(concurrency) == Combine("ThenRun", concurrency)

\* MapWithConcurrency(p, concurrency, mapper); Map is the Async form.
MapWithConcurrency(concurrency) == Combine("Map", concurrency)

\* p.ExceptionallyWithConcurrency(concurrency, recovery); Exceptionally and
\* Recover are the Async form.
ExceptionallyWithConcurrency(concurrency) == Combine("Exceptionally", concurrency)

\* HandleWithConcurrency(p, concurrency, handler); Handle is the Async form.
HandleWithConcurrency(concurrency) == Combine("Handle", concurrency)

\* ComposeWithConcurrency(p, concurrency, composer); Compose is the Async
\* form.  The composer returns "n" := Of(supplier).  Sync: <-p.done, then
\* Completed(zero) when the source has an error, composer(val) itself
\* otherwise.
ComposeWithConcurrency(concurrency) ==
    /\ "q" \notin promises
    /\ "n" \notin promises
    /\ IF concurrency = Async
       THEN /\ SpawnOf("q", "Compose")
            /\ Returned("Compose", concurrency, "q")
            /\ UNCHANGED invoked
       ELSE /\ Await("p")
            /\ IF err["p"] # Nil
               THEN /\ ReturnCompleted("q", Zero)
                    /\ Returned("Compose", concurrency, "q")
                    /\ UNCHANGED invoked
               ELSE /\ SpawnOf("n", "user")
                    /\ Returned("Compose", concurrency, "n")
                    /\ invoked' = Append(invoked, [v |-> value["p"], e |-> Nil])
    /\ UNCHANGED <<ctxDone, sup, thenCalls, firstGet, wins, waitPc, mu, cb>>

\* The goroutine of the derived promise pr runs the closure of an Async
\* form: <-p.done, then the body under the read lock.  The closure of Compose
\* calls the composer when the source has no error and goes on to wait for
\* the promise it returned.
ClosureRun(pr) ==
    /\ pr \in promises
    /\ exec[pr].pc = "supplier"
    /\ exec[pr].kind \in Combinators
    /\ Await(Source(pr))
    /\ IF exec[pr].kind = "Compose" /\ err[Source(pr)] = Nil
       THEN /\ promises' = promises \cup {"n"}
            /\ exec' = [exec EXCEPT ![pr].pc = "await",
                                    !["n"] = [NoExec EXCEPT !.pc = "supplier",
                                                            !.kind = "user"]]
            /\ invoked' = Append(invoked, [v |-> value[Source(pr)], e |-> Nil])
       ELSE /\ exec' = [exec EXCEPT
                           ![pr].pc = "write",
                           ![pr].v = Closure(exec[pr].kind, value[Source(pr)], err[Source(pr)]).v,
                           ![pr].e = Closure(exec[pr].kind, value[Source(pr)], err[Source(pr)]).e]
            /\ invoked' = invoked \o Closure(exec[pr].kind, value[Source(pr)], err[Source(pr)]).call
            /\ UNCHANGED promises
    /\ UNCHANGED <<fields, sup, thenCalls, ghost, waitPc, mu, cb>>

\* The closure of Compose reading the nested promise without waiting for it.
ComposeAwait_NoWait(pr) ==
    /\ pr \in promises
    /\ exec[pr].pc = "await"
    /\ exec' = [exec EXCEPT ![pr].pc = "write",
                            ![pr].v = value["n"],
                            ![pr].e = err["n"]]
    /\ UNCHANGED <<promises, fields, sup, thenCalls, ghost>>
    /\ UNCHANGED aux

\* <-nextPromise.done; return nextPromise.value, nextPromise.err
ComposeAwait(pr) ==
    /\ pr \in promises
    /\ exec[pr].pc = "await"
    /\ Await("n")
    /\ exec' = [exec EXCEPT ![pr].pc = "write",
                            ![pr].v = value["n"],
                            ![pr].e = err["n"]]
    /\ UNCHANGED <<promises, fields, sup, thenCalls, ghost>>
    /\ UNCHANGED aux

\* A second combinator call in Async form, on the derived promise "q"; the
\* promise it returns is "n".  Then waits for q's gate and returns q itself
\* when q holds an error; the others return Of(closure) at once.  Compose is
\* a first link only, since the promise its composer returns is "n".
Chained(op) ==
    /\ "q" \in promises
    /\ "n" \notin promises
    /\ exec["q"].kind \in (Combinators \cup {"then"}) \ {"Compose"}
    /\ IF op = "Then"
       THEN /\ done["q"]
            /\ IF err["q"] # Nil
               THEN /\ ret' = [NoRet EXCEPT !.op = op, !.pre = state["q"],
                                            !.ok = TRUE, !.ptr = "q",
                                            !.mode = Async]
                    /\ UNCHANGED <<promises, fields, exec>>
               ELSE /\ SpawnOf("n", "then")
                    /\ ret' = [NoRet EXCEPT !.op = op, !.pre = state["q"],
                                            !.ok = TRUE, !.ptr = "n",
                                            !.mode = Async]
                    /\ UNCHANGED ctxDone
       ELSE /\ SpawnOf("n", op)
            /\ ret' = [NoRet EXCEPT !.op = op, !.pre = state["q"],
                                    !.ok = TRUE, !.ptr = "n", !.mode = Async]
            /\ UNCHANGED ctxDone
    /\ UNCHANGED <<sup, thenCalls, firstGet, wins, invoked, waitPc, mu, cb>>

\* ------------------------------------------------------------ p.mu
\* sync.RWMutex: RLock returns when no writer holds the lock and no Lock call
\* is waiting; Lock returns when nobody holds the lock.
RLockFree == mu.writer = None /\ mu.pending = {}
LockFree  == mu.writer = None /\ mu.readers = 0

\* The methods a user function calls on the source: the ones that take the
\* read lock and the ones that take the write lock.
ReaderCalls == {"IsDone", "State", "Get"}
WriterCalls == {"Complete", "Cancel"}

CallbackOps == Combinators \cup {"Then"}

\* The lock on "p" the combinator holds while the user function runs: Lock
\* in the Sync form of Then, RLock in both forms of ThenAccept, Map,
\* Exceptionally and Handle, none in the closure of the Async Then, in
\* ThenRun and in Compose (which unlocks before it calls the composer).
HoldOf(op, concurrency) ==
    CASE op = "Then" -> IF concurrency = Sync THEN "W" ELSE None
      [] op \in {"ThenAccept", "Map", "Exceptionally", "Handle"} -> "R"
      [] op \in {"ThenRun", "Compose"} -> None

\* Whether the combinator calls the user function, from the source's err.
Invokes(op) ==
    CASE op \in {"Then", "ThenAccept", "Map", "Compose"} -> err["p"] = Nil
      [] op = "Exceptionally" -> err["p"] # Nil
      [] op \in {"ThenRun", "Handle"} -> TRUE

\* The task of a combinator (the caller in the Sync form, the goroutine of
\* the derived promise in the Async form) has passed <-p.done, takes the
\* lock its form takes and calls the user function.
Invoke(op, concurrency) ==
    /\ cb.pc = "idle"
    /\ Await("p")
    /\ Invokes(op)
    /\ CASE HoldOf(op, concurrency) = "W" ->
               /\ LockFree
               /\ mu' = [mu EXCEPT !.writer = "cb"]
         [] HoldOf(op, concurrency) = "R" ->
               /\ RLockFree
               /\ mu' = [mu EXCEPT !.readers = @ + 1]
         [] OTHER -> UNCHANGED mu
    /\ cb' = [pc |-> "in", op |-> op, mode |-> concurrency,
              hold |-> HoldOf(op, concurrency), call |-> None]
    /\ UNCHANGED <<promises, fields, exec, sup, thenCalls, ghost, invoked,
                   waitPc>>

\* The user function calls method m of "p"; a Lock call waits in line from
\* here on.
InnerCall(m) ==
    /\ cb.pc = "in"
    /\ cb' = [cb EXCEPT !.pc = "wait", !.call = m]
    /\ mu' = IF m \in WriterCalls
             THEN [mu EXCEPT !.pending = @ \cup {"cb"}]
             ELSE mu
    /\ UNCHANGED <<promises, fields, exec, sup, thenCalls, ghost, invoked,
                   waitPc>>

\* The method called by the user function gets the lock, runs its body,
\* unlocks and returns.
InnerAcquire ==
    /\ cb.pc = "wait"
    /\ IF cb.call \in ReaderCalls
       THEN /\ cb.call = "Get" => Await("p")
            /\ RLockFree
            /\ UNCHANGED <<mu, fields>>
       ELSE /\ LockFree
            /\ mu' = [mu EXCEPT !.pending = @ \ {"cb"}]
            /\ IF cb.call = "Complete"
               THEN \E r \in BOOLEAN : CompleteBody("p", Zero, r)
               ELSE CancelBody("p")
    /\ cb' = [cb EXCEPT !.pc = "back"]
    /\ UNCHANGED <<promises, exec, sup, thenCalls, ghost, invoked, waitPc>>

\* The user function returns and the combinator's deferred unlock runs.
Return ==
    /\ cb.pc = "back"
    /\ cb' = [cb EXCEPT !.pc = "out"]
    /\ mu' = CASE cb.hold = "W" -> [mu EXCEPT !.writer = None]
               [] cb.hold = "R" -> [mu EXCEPT !.readers = @ - 1]
               [] OTHER -> mu
    /\ UNCHANGED <<promises, fields, exec, sup, thenCalls, ghost, invoked,
                   waitPc>>

\* The supervisor's timer has fired: its Complete / CompleteExceptionally
\* calls p.mu.Lock() and waits in line.
SupervisorRequest(pr) ==
    /\ sup.pc = "timer"
    /\ sup' = [sup EXCEPT !.pc = "lock"]
    /\ mu' = [mu EXCEPT !.pending = @ \cup {"sup"}]
    /\ UNCHANGED <<promises, fields, exec, thenCalls, ghost, invoked, waitPc,
                   cb>>

\* The supervisor's call gets the lock, runs its body, unlocks and returns.
SupervisorLocked(pr) ==
    /\ sup.pc = "lock"
    /\ LockFree
    /\ mu' = [mu EXCEPT !.pending = @ \ {"sup"}]
    /\ \E r \in BOOLEAN :
          /\ IF sup.kind = "Timeout"
             THEN CompleteExceptionallyBody(pr, ErrTimeout, r)
             ELSE CompleteBody(pr, sup.fallback, r)
          /\ sup' = [sup EXCEPT !.pc = "exit", !.ok = r]
    /\ UNCHANGED <<promises, exec, thenCalls, ghost, invoked, waitPc, cb>>

\* ---------------------------------------------------------- specifications
\* A promise made by Empty, the manual completers and the readers.
NextManual ==
    \/ \E v \in Values : Complete("p", v)
    \/ \E e \in {Nil} \cup UserErrors : CompleteExceptionally("p", e)
    \/ Cancel("p")
    \/ Get("p")
    \/ Join("p")

SpecManual == Empty /\ [][NextManual]_vars

\* p := Of(supplier).Timeout(d) or Of(supplier).CompleteOnTimeout(v, d):
\* the execution task, the supervisor and the readers.
NextTimed ==
    \/ SupplierReturn("p")
    \/ ExecWrite("p")
    \/ ExecClose("p")
    \/ Timeout("p")
    \/ \E v \in Values : CompleteOnTimeout("p", v)
    \/ SupervisorGate("p")
    \/ SupervisorTimer("p")
    \/ SupervisorFire("p")
    \/ Get("p")
    \/ Join("p")

SpecTimed == Of /\ [][NextTimed]_vars

\* A promise made by Of with the execution task, the manual completers and
\* Cancel racing on it, and the readers.  (A supervisor acts on the promise
\* only through Complete and CompleteExceptionally.)
Next ==
    \/ SupplierReturn("p")
    \/ ExecWrite("p")
    \/ ExecClose("p")
    \/ \E v \in Values : Complete("p", v)
    \/ \E e \in {Nil} \cup UserErrors : CompleteExceptionally("p", e)
    \/ Cancel("p")
    \/ Get("p")
    \/ Join("p")

Spec == Of /\ [][Next]_vars

\* Then on a promise made by any constructor, with the manual completers,
\* the execution tasks of the source and of the derived promise, and Get.
NextThen ==
    \/ \E pr \in Promises : SupplierReturn(pr)
    \/ \E pr \in Promises : ExecWrite(pr)
    \/ \E pr \in Promises : ExecClose(pr)
    \/ \E v \in Values : Complete("p", v)
    \/ \E e \in {Nil} \cup UserErrors : CompleteExceptionally("p", e)
    \/ \E c \in Concurrency : ThenWithConcurrency(c)
    \/ Get("p")

SpecThen == Init /\ [][NextThen]_vars

\* Tasks waiting in Get and Join on a promise made by Empty or by Of, with
\* the execution task, the manual completers and Cancel.  The scheduler runs
\* every goroutine that can take a step, so the steps of the execution task
\* that follow the supplier and the wake-up of a waiter are weakly fair; the
\* supplier itself and the callers of the completers need not act at all.
\* Whether a waiter wakes does not depend on the value or error a completer
\* is given, so each completer is called with one argument here.
NextWait ==
    \/ SupplierReturn("p")
    \/ ExecWrite("p")
    \/ ExecClose("p")
    \/ Complete("p", MaxValue)
    \/ CompleteExceptionally("p", ErrTimeout)
    \/ Cancel("p")
    \/ \E w \in Waiters : WaitStart(w)
    \/ \E w \in Waiters : WaitReturn(w)

FairWait ==
    /\ WF_vars(ExecWrite("p"))
    /\ WF_vars(ExecClose("p"))
    /\ \A w \in Waiters : WF_vars(WaitReturn(w))

SpecWait == (Empty \/ Of) /\ [][NextWait]_vars /\ FairWait

\* Every task that can end a promise made by Of, racing: the execution
\* task, the manual completers, Cancel and a timeout supervisor.
NextRace ==
    \/ SupplierReturn("p")
    \/ ExecWrite("p")
    \/ ExecClose("p")
    \/ \E v \in Values : Complete("p", v)
    \/ \E e \in {Nil} \cup UserErrors : CompleteExceptionally("p", e)
    \/ Cancel("p")
    \/ Timeout("p")
    \/ \E v \in Values : CompleteOnTimeout("p", v)
    \/ SupervisorGate("p")
    \/ SupervisorTimer("p")
    \/ SupervisorFire("p")

SpecRace == Of /\ [][NextRace]_vars

\* ThenRun on a promise made by Empty or by Of that ends in any way: by the
\* execution task, Complete, CompleteExceptionally or Cancel.  ThenRun does
\* not look at the source's value or error, so each completer is called with
\* one argument.  The scheduler runs every goroutine that can take a step
\* and the action returns, so the steps of the execution tasks after the
\* supplier and the closure of the Async form are weakly fair.
NextRun ==
    \/ SupplierReturn("p")
    \/ \E pr \in Promises : ExecWrite(pr)
    \/ \E pr \in Promises : ExecClose(pr)
    \/ Complete("p", MaxValue)
    \/ CompleteExceptionally("p", ErrTimeout)
    \/ Cancel("p")
    \/ \E c \in Concurrency : ThenRunWithConcurrency(c)
    \/ ClosureRun("q")

FairRun ==
    /\ \A pr \in Promises : WF_vars(ExecWrite(pr)) /\ WF_vars(ExecClose(pr))
    /\ WF_vars(ClosureRun("q"))

SpecRun == (Empty \/ Of) /\ [][NextRun]_vars /\ FairRun

\* A user function passed to a combinator calls a method of the source,
\* which has ended by Complete or CompleteExceptionally before the
\* combinator ran, while a Timeout supervisor watches the source.  The
\* scheduler runs every goroutine that can take a step, so every step that
\* gets a lock or releases one is weakly fair.
NextLock ==
    \/ cb.pc = "idle" /\ Complete("p", MaxValue)
    \/ cb.pc = "idle" /\ CompleteExceptionally("p", ErrTimeout)
    \/ Timeout("p")
    \/ SupervisorGate("p")
    \/ SupervisorTimer("p")
    \/ SupervisorRequest("p")
    \/ SupervisorLocked("p")
    \/ \E op \in CallbackOps, c \in Concurrency : Invoke(op, c)
    \/ \E m \in ReaderCalls \cup WriterCalls : InnerCall(m)
    \/ InnerAcquire
    \/ Return

FairLock ==
    /\ WF_vars(InnerAcquire)
    /\ WF_vars(Return)
    /\ WF_vars(SupervisorLocked("p"))

SpecLock == Empty /\ [][NextLock]_vars /\ FairLock

\* The success-only combinators and the recovery combinator on a promise
\* made by Empty that is ended by Cancel, Complete or CompleteExceptionally,
\* before or after the combinator is called.
NextCancelled ==
    \/ Cancel("p")
    \/ \E v \in Values : Complete("p", v)
    \/ \E e \in UserErrors : CompleteExceptionally("p", e)
    \/ \E c \in Concurrency : "q" \notin promises /\ ThenWithConcurrency(c)
    \/ \E c \in Concurrency : ThenAcceptWithConcurrency(c)
    \/ \E c \in Concurrency : MapWithConcurrency(c)
    \/ \E c \in Concurrency : ComposeWithConcurrency(c)
    \/ \E c \in Concurrency : ExceptionallyWithConcurrency(c)
    \/ \E pr \in Promises : SupplierReturn(pr)
    \/ \E pr \in Promises : ExecWrite(pr)
    \/ \E pr \in Promises : ExecClose(pr)
    \/ ClosureRun("q")
    \/ ComposeAwait("q")

SpecCancelled == Empty /\ [][NextCancelled]_vars

\* A promise made by Empty or by Of under a timeout supervisor, with tasks
\* waiting in Get or Join and nobody completing it by hand.  The timer fires
\* after the duration and the scheduler runs every goroutine that can take a
\* step, so the supervisor's steps, the steps of the execution task after
\* the supplier and the wake-up of a waiter are weakly fair; the supplier
\* need not return.
NextSup ==
    \/ SupplierReturn("p")
    \/ ExecWrite("p")
    \/ ExecClose("p")
    \/ Timeout("p")
    \/ \E v \in Values : CompleteOnTimeout("p", v)
    \/ SupervisorGate("p")
    \/ SupervisorTimer("p")
    \/ SupervisorFire("p")
    \/ \E w \in Waiters : WaitStart(w)
    \/ \E w \in Waiters : WaitReturn(w)

FairSup ==
    /\ WF_vars(ExecWrite("p"))
    /\ WF_vars(ExecClose("p"))
    /\ WF_vars(SupervisorTimer("p"))
    /\ WF_vars(SupervisorFire("p"))
    /\ \A w \in Waiters : WF_vars(WaitReturn(w))

SpecSup == (Empty \/ Of) /\ [][NextSup]_vars /\ FairSup

\* Chains of asynchronous combinators: a source made by Of, one combinator
\* call in Async form on it ("q", with "n" when the call is Compose), then
\* one more on "q" ("n").  The tasks' steps after the supplier are fair, and
\* so are the steps of the closures and of the user's functions they call;
\* the source's own supplier need not return, and the source may be
\* cancelled while its supplier runs.
NextChain ==
    \/ \E pr \in Promises : SupplierReturn(pr)
    \/ \E pr \in Promises : ExecWrite(pr)
    \/ \E pr \in Promises : ExecClose(pr)
    \/ Cancel("p")
    \/ ThenWithConcurrency(Async)
    \/ ThenAcceptWithConcurrency(Async)
    \/ ThenRunWithConcurrency(Async)
    \/ MapWithConcurrency(Async)
    \/ ComposeWithConcurrency(Async)
    \/ ExceptionallyWithConcurrency(Async)
    \/ HandleWithConcurrency(Async)
    \/ \E op \in (Combinators \cup {"Then"}) \ {"Compose"} : Chained(op)
    \/ \E pr \in {"q", "n"} : ClosureRun(pr)
    \/ ComposeAwait("q")

FairChain ==
    /\ \A pr \in {"q", "n"} : WF_vars(SupplierReturn(pr))
    /\ \A pr \in Promises : WF_vars(ExecWrite(pr))
    /\ \A pr \in Promises : WF_vars(ExecClose(pr))
    /\ \A pr \in {"q", "n"} : WF_vars(ClosureRun(pr))
    /\ WF_vars(ComposeAwait("q"))

SpecChain == Of /\ [][NextChain]_vars /\ FairChain

\* One combinator call on p := Of(supplier), in either mode, with the
\* execution tasks of the source, of the derived promise and of the promise
\* the composer returns.  Nothing but its execution task completes the
\* source, so what the combinator reads from it after its gate closed is
\* what the supplier returned.
NextComb ==
    \/ \E pr \in Promises : SupplierReturn(pr)
    \/ \E pr \in Promises : ExecWrite(pr)
    \/ \E pr \in Promises : ExecClose(pr)
    \/ \E c \in Concurrency : ret.op = None /\ ThenWithConcurrency(c)
    \/ \E c \in Concurrency : ret.op = None /\ ThenAcceptWithConcurrency(c)
    \/ \E c \in Concurrency : ret.op = None /\ ThenRunWithConcurrency(c)
    \/ \E c \in Concurrency : ret.op = None /\ MapWithConcurrency(c)
    \/ \E c \in Concurrency : ret.op = None /\ ComposeWithConcurrency(c)
    \/ \E c \in Concurrency : ret.op = None /\ ExceptionallyWithConcurrency(c)
    \/ \E c \in Concurrency : ret.op = None /\ HandleWithConcurrency(c)
    \/ ClosureRun("q")
    \/ ComposeAwait("q")

SpecComb == Of /\ [][NextComb]_vars

\* ------------------------------------------------------------ properties
\* What the supplier of pr returned, as the outcome of a promise.
SupplierOutcome(pr) ==
    [state |-> IF exec[pr].e # Nil THEN StateFailed ELSE StateSuccess,
     value |-> exec[pr].v,
     err   |-> exec[pr].e]

Holds(pr, outcome) ==
    /\ state[pr] = outcome.state
    /\ value[pr] = outcome.value
    /\ err[pr] = outcome.err

\* C1: the state of every promise starts at Running and, once it is Success,
\* Failed or Cancelled, no step changes it.
TerminalStateIsAbsorbing ==
    /\ \A pr \in Promises : state[pr] = StateRunning
    /\ [][\A pr \in Promises :
             state[pr] \in Terminal => state'[pr] = state[pr]]_vars

\* C2: on a promise made by Empty, of all the Complete, CompleteExceptionally
\* and Cancel calls at most one takes effect (so at most one Complete or
\* CompleteExceptionally returns true, and none once Cancel has won); the
\* promise is Running exactly as long as none has, and afterwards state,
\* value and err are those the winner wrote.
ExactlyOneWinner ==
    /\ Len(wins) <= 1
    /\ state["p"] = StateRunning <=> wins = <<>>
    /\ wins = <<>> => value["p"] = Zero /\ err["p"] = Nil
    /\ wins # <<>> =>
         LET w == wins[1] IN
         /\ w.op = "Complete" =>
               Holds("p", [state |-> StateSuccess, value |-> w.val, err |-> Nil])
         /\ w.op = "CompleteExceptionally" =>
               Holds("p", [state |-> StateFailed, value |-> Zero, err |-> w.err])
         /\ w.op = "Cancel" =>
               Holds("p", [state |-> StateCancelled, value |-> Zero, err |-> Nil])

\* Cancel has won the race and a later CompleteExceptionally returned false.
CancelWonThenCompleteLost ==
    /\ wins # <<>>
    /\ wins[1].op = "Cancel"
    /\ ret.op = "CompleteExceptionally"
    /\ ret.ok = FALSE
    /\ IsCancelled("p")

\* C3: a Complete(v) step returns true exactly when the state is Running;
\* then the state becomes Success, the value v and the gate closes, and
\* otherwise state, value and err stay as they are.  CompleteExceptionally(e)
\* likewise with Failed and err = e, for a nil e too.
CompletePost(v) ==
    IF state["p"] = StateRunning
    THEN /\ ret'.ok = TRUE
         /\ state'["p"] = StateSuccess
         /\ value'["p"] = v
         /\ err'["p"] = err["p"]
         /\ done'["p"]
    ELSE /\ ret'.ok = FALSE
         /\ UNCHANGED <<state, value, err>>

CompleteExceptionallyPost(e) ==
    IF state["p"] = StateRunning
    THEN /\ ret'.ok = TRUE
         /\ state'["p"] = StateFailed
         /\ IsCompletedExceptionally("p")'
         /\ err'["p"] = e
         /\ value'["p"] = value["p"]
         /\ done'["p"]
    ELSE /\ ret'.ok = FALSE
         /\ UNCHANGED <<state, value, err>>

CompleteContract ==
    [][/\ \A v \in Values : Complete("p", v) => CompletePost(v)
       /\ \A e \in {Nil} \cup UserErrors :
             CompleteExceptionally("p", e) => CompleteExceptionallyPost(e)]_vars

\* CompleteExceptionally(nil) has returned true on a Running promise.
FailedWithNilError ==
    /\ ret.op = "CompleteExceptionally"
    /\ ret.pre = StateRunning
    /\ ret.ok = TRUE
    /\ ret.err = Nil
    /\ IsCompletedExceptionally("p")
    /\ err["p"] = Nil

\* C4: every Get on a promise returns what the first Get on it returned.
GetIsFrozen ==
    (firstGet # <<>> /\ ret.op = "Get") => <<ret.val, ret.err>> = firstGet

\* C5: when Cancel took effect while the supplier was executing and the
\* execution task has written its outcome since, the promise is still
\* Cancelled and value and err are as Cancel left them.
CancelSurvivesSupplier ==
    (/\ wins # <<>>
     /\ wins[1].op = "Cancel"
     /\ wins[1].at = "supplier"
     /\ exec["p"].pc \in {"close", "done"})
    => /\ IsCancelled("p")
       /\ Holds("p", [state |-> StateCancelled, value |-> Zero, err |-> Nil])

\* C6: when the timer of Timeout fired and its CompleteExceptionally took
\* effect while the supplier was executing, then once the supervisor and the
\* execution task have finished the promise is Failed and Get returns the
\* timeout error.
TimeoutEndsFailed ==
    (/\ sup.kind = "Timeout"
     /\ sup.firedAt = "supplier"
     /\ sup.ok
     /\ sup.pc = "exit"
     /\ exec["p"].pc = "done")
    => /\ state["p"] = StateFailed
       /\ GetResult("p")[2] = ErrTimeout

\* C7: when the execution task wrote the supplier's outcome before the timer
\* of Timeout fired (or the timer never fired), the promise holds the
\* supplier's outcome from then on, and the supervisor's
\* CompleteExceptionally, if it is called at all, returns false.
WrittenBeforeTimer ==
    \/ sup.firedAt \in {"close", "done"}
    \/ sup.firedAt = None /\ sup.pc = "exit"

SupplierBeatsTimeout ==
    (sup.kind = "Timeout" /\ WrittenBeforeTimer)
    => /\ Holds("p", SupplierOutcome("p"))
       /\ sup.pc = "exit" => sup.ok = FALSE

\* The timer fired between the unlock and the deferred close of the
\* execution task, and the supervisor's call has returned.
TimerFiredAfterWrite ==
    /\ sup.kind = "Timeout"
    /\ sup.firedAt = "close"
    /\ sup.pc = "exit"
    /\ exec["p"].pc = "done"
    /\ IsSuccess("p")

\* C8: with CompleteOnTimeout(fallback, d), when the timer fired and
\* Complete(fallback) took effect while the supplier was executing, the
\* promise is Success with the fallback from then on; when the supplier's
\* outcome was written first, the promise holds the supplier's outcome.
FallbackOnTimeout ==
    /\ (/\ sup.kind = "CompleteOnTimeout"
        /\ sup.firedAt = "supplier"
        /\ sup.ok
        /\ sup.pc = "exit")
       => /\ Holds("p", [state |-> StateSuccess, value |-> sup.fallback,
                         err |-> Nil])
          /\ done["p"]
    /\ (sup.kind = "CompleteOnTimeout" /\ WrittenBeforeTimer)
       => Holds("p", SupplierOutcome("p"))

\* C9: on a promise cancelled while Running, IsCancelled is true, the gate is
\* closed, Get returns a non-nil error and Join aborts.
CancelledGetFails ==
    (wins # <<>> /\ wins[1].op = "Cancel")
    => /\ IsCancelled("p")
       /\ done["p"]
       /\ (ret.op = "Get" => ret.err # Nil)
       /\ (ret.op = "Join" => ret.ok = FALSE)

\* C10: a Cancel step on a promise that is Success, Failed or Cancelled
\* changes neither state, value nor err, nor what Get returns, and does not
\* cancel the context.
CancelAfterTerminalIsNoOp ==
    [][(Cancel("p") /\ state["p"] \in Terminal)
        => /\ UNCHANGED <<state, value, err, done, ctxDone>>
           /\ GetResult("p")' = GetResult("p")]_vars

\* Cancel has been called on a promise that had succeeded.
CancelledAfterSuccess ==
    /\ ret.op = "Cancel"
    /\ ret.pre = StateSuccess
    /\ IsSuccess("p")
    /\ ~ctxDone["p"]

\* C11: on a promise made by Of that nothing but its execution task
\* completes, once the task has finished: a supplier that returned a non-nil
\* error e leaves the promise Failed, Get returns (zero, e) and Join panics
\* with e; a supplier that returned (v, nil) leaves it Success and Get
\* returns (v, nil).
SupplierOutcomeIsResult ==
    (sup.pc = None /\ exec["p"].pc = "done")
    => IF exec["p"].e # Nil
       THEN /\ IsError("p")
            /\ GetResult("p") = <<Zero, exec["p"].e>>
            /\ JoinResult("p").ok = FALSE
            /\ JoinResult("p").err = exec["p"].e
       ELSE /\ IsSuccess("p")
            /\ GetResult("p") = <<exec["p"].v, Nil>>

\* C12: a Join step is taken only with the gate closed; it panics with the
\* stored error when that is not nil and returns the stored value otherwise.
\* A Get step is taken only with the gate closed, never panics and returns
\* the stored (value, err).
JoinAndGetContract ==
    [][/\ Join("p") =>
             /\ done["p"]
             /\ IF err["p"] # Nil
                THEN ret'.ok = FALSE /\ ret'.err = err["p"]
                ELSE ret'.ok = TRUE /\ ret'.val = value["p"]
       /\ Get("p") =>
             /\ done["p"]
             /\ ret'.ok = TRUE
             /\ ret'.val = value["p"]
             /\ ret'.err = err["p"]]_vars

\* Join has panicked with the error of a failed promise.
JoinPanicked ==
    /\ ret.op = "Join"
    /\ ret.ok = FALSE
    /\ ret.err \in UserErrors
    /\ ret.pre = StateFailed
    /\ done["p"]

\* C13: a task waiting in Get or Join on a promise that has reached a
\* terminal state eventually returns, however many tasks wait and whichever
\* transition ended the promise; with the gate closed a waiting task can
\* always return.
NoMissedWakeup ==
    /\ \A w \in Waiters :
          (waitPc[w].pc = "wait" /\ state["p"] \in Terminal)
             ~> (waitPc[w].pc = "returned")
    /\ [](\A w \in Waiters :
             (waitPc[w].pc = "wait" /\ done["p"]) => ENABLED WaitReturn(w))

\* Every waiter was blocked on the open gate and has returned.
AllWaitersWoken ==
    \A w \in Waiters : waitPc[w].pc = "returned" /\ waitPc[w].blocked

\* The source has failed with a non-nil error, or has succeeded.
SourceFailed == state["p"] = StateFailed /\ err["p"] # Nil
SourceSucceeded == state["p"] = StateSuccess /\ err["p"] = Nil

\* C14: on a source that is Failed with error e, Then and Map, Sync or
\* Async, never call the function they were given, and the promise they
\* return is Failed and its Get returns e.
ThenMapShortCircuit ==
    (ret.op \in {"Then", "Map"} /\ SourceFailed) =>
        /\ invoked = <<>>
        /\ done[ret.ptr] =>
              /\ state[ret.ptr] = StateFailed
              /\ GetResult(ret.ptr)[2] = err["p"]

\* C15: on a source that is Failed with error e, Compose, Sync or Async,
\* never calls the composer, and the promise it returns is Failed with e and
\* not a Success holding the zero value.
ComposeShortCircuit ==
    (ret.op = "Compose" /\ SourceFailed) =>
        /\ invoked = <<>>
        /\ "n" \notin promises
        /\ done[ret.ptr] =>
              /\ state[ret.ptr] = StateFailed
              /\ GetResult(ret.ptr)[2] = err["p"]

ThenAcceptCarriesFailure ==
    ret.op = "ThenAccept" =>
        /\ SourceFailed =>
              /\ invoked = <<>>
              /\ done[ret.ptr] => GetResult(ret.ptr)[2] # Nil
        /\ SourceSucceeded =>
              /\ Len(invoked) <= 1
              /\ done[ret.ptr] =>
                    /\ invoked = <<[v |-> value["p"], e |-> Nil]>>
                    /\ state[ret.ptr] = StateSuccess

\* C18: Exceptionally (Recover), Sync or Async: on a source that is Success
\* with v the recovery function is never called and the result is Success
\* with v; on a source Failed with e it is called exactly once, with e, and
\* the result is Success with recovery(e).
ExceptionallyContract ==
    ret.op = "Exceptionally" =>
        /\ SourceSucceeded =>
              /\ invoked = <<>>
              /\ done[ret.ptr] =>
                    Holds(ret.ptr, [state |-> StateSuccess,
                                    value |-> value["p"], err |-> Nil])
        /\ SourceFailed =>
              /\ invoked \in {<<>>, <<[v |-> Zero, e |-> err["p"]]>>}
              /\ done[ret.ptr] =>
                    /\ invoked # <<>>
                    /\ Holds(ret.ptr, [state |-> StateSuccess,
                                       value |-> Recovery(err["p"]),
                                       err |-> Nil])

\* Exceptionally, called in its Async form while the source was running, has
\* recovered from the failure of the source.
RecoveredFromFailure ==
    /\ ret.op = "Exceptionally"
    /\ ret.mode = Async
    /\ ret.pre = StateRunning
    /\ SourceFailed
    /\ done["q"]
    /\ invoked = <<[v |-> Zero, e |-> err["p"]]>>
    /\ value["q"] = Recovery(err["p"])

\* C19: Handle, Sync or Async, calls the handler exactly once, not before
\* the gate of the source has closed, with the (value, err) the source
\* holds from then on, whether it succeeded or failed, and the promise
\* returned is Success with the handler's result and a nil error.
HandleContract ==
    ret.op = "Handle" =>
        /\ Len(invoked) <= 1
        /\ invoked # <<>> =>
              /\ done["p"]
              /\ invoked[1] = [v |-> value["p"], e |-> err["p"]]
        /\ state[ret.ptr] \in {StateRunning, StateSuccess}
        /\ done[ret.ptr] =>
              /\ Len(invoked) = 1
              /\ Holds(ret.ptr, [state |-> StateSuccess,
                                 value |-> Handler(value["p"], err["p"]),
                                 err |-> Nil])
              /\ GetResult(ret.ptr)[2] = Nil

\* Handle, called in its Async form while the source was running, has
\* handled the failure of the source.
HandledFailure ==
    /\ ret.op = "Handle"
    /\ ret.mode = Async
    /\ ret.pre = StateRunning
    /\ SourceFailed
    /\ done["q"]
    /\ invoked = <<[v |-> value["p"], e |-> err["p"]]>>

\* C20: the Async form of every combinator returns without waiting for the
\* source: whatever the state of the source, as long as no combinator has
\* been called the call of each Async form can return at once.
AsyncFormsNeverBlock ==
    (ret.op = None /\ promises = {"p"}) =>
        /\ ENABLED ThenWithConcurrency(Async)
        /\ ENABLED ThenAcceptWithConcurrency(Async)
        /\ ENABLED ThenRunWithConcurrency(Async)
        /\ ENABLED MapWithConcurrency(Async)
        /\ ENABLED ComposeWithConcurrency(Async)
        /\ ENABLED ExceptionallyWithConcurrency(Async)
        /\ ENABLED HandleWithConcurrency(Async)

\* C21: in every state another task can observe, the gate of a promise is
\* closed exactly when its state is not Running, and whenever IsDone()
\* returns true a Get on the promise can return.
GateIffTerminal ==
    \A pr \in promises :
        /\ done[pr] <=> state[pr] # StateRunning
        /\ IsDone(pr) => ENABLED Get(pr)

\* C22: whatever the interleaving of the execution task, Complete,
\* CompleteExceptionally, Cancel and a timeout supervisor, close(p.done) is
\* executed at most once on a promise, and the channel is closed exactly when
\* it has been executed.
ClosedAtMostOnce ==
    \A pr \in Promises :
        /\ closes[pr] <= 1
        /\ done[pr] <=> closes[pr] = 1
        /\ once[pr] <=> done[pr]

\* A manual call ended the promise and closed the gate, the supervisor's
\* completion was rejected, and the execution task then ran its own close().
LaterClosesAbsorbed ==
    /\ Len(wins) = 1
    /\ sup.pc = "exit"
    /\ sup.firedAt # None
    /\ exec["p"].pc = "done"
    /\ closes["p"] = 1

\* C23: in every state of a promise, whatever the interleaving of the
\* execution task, Complete, CompleteExceptionally, Cancel and a timeout
\* supervisor, a non-nil err implies state Failed and state Success implies
\* a nil err.
ErrorOnlyWhenFailed ==
    \A pr \in Promises :
        /\ err[pr] # Nil => state[pr] = StateFailed
        /\ state[pr] = StateSuccess => err[pr] = Nil

\* CompleteExceptionally ended the promise with an error and the execution
\* task then wrote the supplier's success over it.
ErrorReplacedBySuccess ==
    /\ Len(wins) = 1
    /\ wins[1].op = "CompleteExceptionally"
    /\ wins[1].err # Nil
    /\ exec["p"].pc = "done"
    /\ state["p"] = StateSuccess
    /\ err["p"] = Nil

\* C24: Then, Sync or Async, on a source that is Success with v leaves the
\* source as it is (Get on it still returns (v, nil)) and returns a promise
\* other than the source; and every application of Then to the source calls
\* f with the same v, so each result holds f(v).
ThenLeavesSource ==
    /\ [][\A c \in Concurrency :
             (ThenWithConcurrency(c) /\ state["p"] = StateSuccess) =>
                 /\ GetResult("p")' = GetResult("p")
                 /\ ret'.ptr # "p"]_vars
    /\ [](\A i, j \in 1..Len(invoked) : invoked[i].v = invoked[j].v)

\* C25: ThenRun, Sync or Async, runs the action exactly once and not before
\* the gate of the source has closed, however the source ended; the promise
\* it returned is Running until the action has run and Success afterwards;
\* and once the gate of the source has closed the action does run and the
\* promise returned completes.
ThenRunContract ==
    /\ [](Len(invoked) <= 1)
    /\ [](invoked # <<>> => done["p"])
    /\ [](("q" \in promises /\ state["q"] # StateRunning) =>
             /\ invoked = <<[v |-> Zero, e |-> Nil]>>
             /\ Holds("q", [state |-> StateSuccess, value |-> Void,
                            err |-> Nil]))
    /\ ("q" \in promises /\ done["p"]) ~> (done["q"] /\ Len(invoked) = 1)

\* The Async ThenRun was called on a running source, the source was
\* cancelled, and the action has run and the promise returned is complete.
RanAfterCancel ==
    /\ exec["q"].kind = "ThenRun"
    /\ exec["q"].pc = "done"
    /\ state["p"] = StateCancelled
    /\ invoked = <<[v |-> Zero, e |-> Nil]>>
    /\ state["q"] = StateSuccess
    /\ done["q"]

\* C26: a Cancel that finds the promise Running makes, in one step, the
\* state Cancelled, the context cancelled and the gate closed; no other step
\* cancels the context, so the context is cancelled exactly when some Cancel
\* call found the promise Running.
CancelCancelsContext ==
    /\ [][(Cancel("p") /\ state["p"] = StateRunning) =>
             /\ state'["p"] = StateCancelled
             /\ ctxDone'["p"]
             /\ done'["p"]]_vars
    /\ [][ctxDone'["p"] # ctxDone["p"] =>
             (Cancel("p") /\ state["p"] = StateRunning)]_vars
    /\ [](ctxDone["p"] <=> \E i \in 1..Len(wins) : wins[i].op = "Cancel")

\* Cancel found the promise Running while a supervisor was watching it; the
\* supervisor has left through the gate and the context is cancelled.
ContextCancelled ==
    /\ ctxDone["p"]
    /\ state["p"] = StateCancelled
    /\ done["p"]
    /\ sup.pc = "exit"
    /\ sup.firedAt = None

\* C27: a call of IsDone, State, Get, Complete or Cancel on the terminal
\* source made by the user function of any combinator, Sync or Async, returns,
\* also while a supervisor is calling CompleteExceptionally on the source.
CallbackCallsReturn ==
    (cb.pc = "wait") ~> (cb.pc = "back")

\* C28: when the source has ended Cancelled, Then, Map, Compose, ThenAccept
\* and Exceptionally never call the function they were given, and no promise
\* they return is Success.
CancelledNotTurnedIntoSuccess ==
    state["p"] = StateCancelled =>
        /\ invoked = <<>>
        /\ \A pr \in promises \ {"p"} : state[pr] # StateSuccess

\* C29: once Timeout, Threshold or CompleteOnTimeout has been called on a
\* promise, the promise eventually is terminal with its gate closed, every
\* task waiting in Get eventually returns, and the supervisor eventually
\* exits, also when the supplier never returns and nobody completes the
\* promise.
TimeoutBoundsWaiting ==
    /\ (sup.pc # None) ~> (state["p"] \in Terminal /\ done["p"])
    /\ \A w \in Waiters :
          (sup.pc # None /\ waitPc[w].pc = "wait") ~> (waitPc[w].pc = "returned")
    /\ (sup.pc # None) ~> (sup.pc = "exit")

\* The supplier has not returned, the supervisor ended the promise and
\* every waiter that was blocked has returned.
WokenByTimeout ==
    /\ exec["p"].pc = "supplier"
    /\ sup.pc = "exit"
    /\ sup.ok
    /\ \A w \in Waiters : waitPc[w].pc = "returned" /\ waitPc[w].blocked

\* C30: (liveness, under fairness of the tasks' steps and of the user's
\* functions) once the supplier of a promise made by Of has returned, the
\* promise's gate is eventually closed; and once the source is terminal,
\* every promise derived from it through asynchronous combinators is
\* eventually terminal: none stays Running forever.
ChainsTerminate ==
    /\ \A pr \in Promises : (exec[pr].pc = "write") ~> done[pr]
    /\ \A pr \in {"q", "n"} :
          (pr \in promises /\ state["p"] \in Terminal)
             ~> (state[pr] \in Terminal)

ChainEnded ==
    /\ exec["q"].kind \in Combinators \cup {"then"}
    /\ exec["n"].kind \in Combinators \cup {"then"}
    /\ \A pr \in Promises : exec[pr].pc = "done" /\ state[pr] \in Terminal /\ done[pr]

TypeOK ==
    /\ promises \subseteq Promises
    /\ state \in [Promises -> State]
    /\ err \in [Promises -> Errors]
    /\ done \in [Promises -> BOOLEAN]
    /\ once \in [Promises -> BOOLEAN]
    /\ closes \in [Promises -> 0..1]
    /\ ctxDone \in [Promises -> BOOLEAN]
    /\ thenCalls \in 0..MaxThen

====
